---------------------------- MODULE Spec2Model ----------------------------
(***************************************************************************)
(* Connection resolution of openmdao/core/problem.py: Problem.setup with   *)
(* check_connections, check_types_match, check_shapes_match and            *)
(* assign_parameters.                                                      *)
(*                                                                         *)
(* Python strings are sequences of one-character strings, so that          *)
(* str.split(':') and ':'.join(...) are computed rather than assumed.      *)
(* Python values are records carrying their class in the field cls.        *)
(* A dict is a function; its iteration order is arbitrary, so every loop   *)
(* over a dict picks the next key nondeterministically.                    *)
(***************************************************************************)
EXTENDS Integers, Sequences, FiniteSets, TLC

\* ------------------------------------------------------------------ bounds
\* largest extent of one dimension of a shape
MaxDim == 2
\* number of times setup is invoked on the same model
MaxRuns == 2

\* --------------------------------------------------------- python strings
Colon == ":"

\* "G:a:x" and friends, one element per character
Str3(a, b, c) == <<a, Colon, b, Colon, c>>
Str2(a, b) == <<a, Colon, b>>

RECURSIVE FirstColon(_, _)
\* index of the first ':' of s at or after i, 0 when there is none
FirstColon(s, i) ==
    IF i > Len(s) THEN 0
    ELSE IF s[i] = Colon THEN i
    ELSE FirstColon(s, i + 1)

RECURSIVE Split(_)
\* s.split(':') : never empty, ''.split(':') = ['']
Split(s) ==
    LET i == FirstColon(s, 1)
    IN  IF i = 0 THEN <<s>>
        ELSE <<SubSeq(s, 1, i - 1)>> \o Split(SubSeq(s, i + 1, Len(s)))

RECURSIVE Join(_)
\* ':'.join(parts)
Join(parts) ==
    IF parts = <<>> THEN <<>>
    ELSE IF Len(parts) = 1 THEN parts[1]
    ELSE parts[1] \o <<Colon>> \o Join(Tail(parts))

RECURSIVE AllMatchingParts(_, _)
\* the loop of assign_parameters with `continue` in place of `break`
AllMatchingParts(pparts, uparts) ==
    IF pparts = <<>> \/ uparts = <<>> THEN <<>>
    ELSE IF Head(pparts) = Head(uparts)
         THEN <<Head(pparts)>> \o AllMatchingParts(Tail(pparts), Tail(uparts))
         ELSE AllMatchingParts(Tail(pparts), Tail(uparts))

RECURSIVE CommonParts(_, _)
\* the inner loop of assign_parameters over zip(par.split(':'), unk.split(':'))
CommonParts(pparts, uparts) ==
    IF pparts = <<>> \/ uparts = <<>> THEN <<>>
    ELSE IF Head(pparts) = Head(uparts)
         THEN <<Head(pparts)>> \o CommonParts(Tail(pparts), Tail(uparts))
         ELSE <<>>

\* owner = ':'.join(common_parts)
OwnerOf(par, unk) == Join(CommonParts(Split(par), Split(unk)))

\* a dict whose key `owner` holds only [par]: the list is replaced
SetDefaultOverwrite(owners, owner, par) ==
    [o \in DOMAIN owners \cup {owner} |->
        IF o = owner THEN <<par>> ELSE owners[o]]

\* param_owners.setdefault(owner, []).append(par)
SetDefaultAppend(owners, owner, par) ==
    [o \in DOMAIN owners \cup {owner} |->
        IF o = owner
        THEN (IF owner \in DOMAIN owners THEN owners[owner] ELSE <<>>) \o <<par>>
        ELSE owners[o]]

\* ------------------------------------------------------------ python values
NoneVal == [cls |-> "NoneType"]
Tuple(s) == [cls |-> "tuple", items |-> s]
\* a float has no attribute `shape`
FloatVal == [cls |-> "float"]
\* a numpy array; its attribute `shape` is a tuple
ArrayVal(s) == [cls |-> "ndarray", shape |-> Tuple(s)]

\* type(x)
TypeOf(x) == x.cls
HasShapeAttr(v) == "shape" \in DOMAIN v

\* shapes of no, one and two dimensions
Shapes == {<<>>} \cup [1..1 -> 1..MaxDim] \cup [1..2 -> 1..MaxDim]
ShapeVals == {NoneVal} \cup {Tuple(s) : s \in Shapes}
Vals == {FloatVal} \cup {ArrayVal(s) : s \in Shapes}

\* a variable's metadata dict: metadata['val'] and metadata.get('shape')
Descriptor(v, sh) == [val |-> v, shape |-> sh]

\* VarMetadata(path, metadata['val'], type(metadata['val']), metadata.get('shape'))
make_var_metadata(path, metadata) ==
    [path |-> path, val |-> metadata.val, type |-> TypeOf(metadata.val),
     shape |-> metadata.shape]

\* the condition of check_types_match: src.type != target.type
TypesMismatch(src, target) == src.type # target.type

\* tuples compared by their number of dimensions only
RankDiffers(a, b) ==
    \/ TypeOf(a) # TypeOf(b)
    \/ TypeOf(a) = "tuple" /\ Len(a.items) # Len(b.items)

\* a != b where each is a tuple or None: tuples differ element-wise
TupleNe(a, b) ==
    \/ TypeOf(a) # TypeOf(b)
    \/ /\ TypeOf(a) = "tuple"
       /\ \/ Len(a.items) # Len(b.items)
          \/ \E i \in 1..Len(a.items) : a.items[i] # b.items[i]

\* a dispatch table that compares declared shapes whenever the source has one
ShapeCheckAlways(source_shape_type, target_shape_type) ==
    IF source_shape_type = "tuple" THEN "check_shapes_match"
    ELSE IF target_shape_type = "tuple" THEN "check_val_and_shape_match"
    ELSE "no_check"

\* __shape_checks.get((source_shape_type, target_shape_type), lambda x, y: None)
ShapeCheckFunction(source_shape_type, target_shape_type) ==
    IF source_shape_type = "tuple" /\ target_shape_type = "tuple"
        THEN "check_shapes_match"
    ELSE IF source_shape_type = "NoneType" /\ target_shape_type = "tuple"
        THEN "check_val_and_shape_match"
    ELSE "no_check"

\* ------------------------------------------------------------- exceptions
NoError == [type |-> "none"]
Raise(type, msg, args) == [type |-> type, msg |-> msg, args |-> args]

\* check_types_match(src, target): the exception it raises, or NoError
check_types_match(src, target) ==
    IF TypesMismatch(src, target)
    THEN Raise("ConnectError", "type",
               <<src.path, src.type, target.path, target.type>>)
    ELSE NoError

\* __check_shapes_match(src, target)
check_declared_shapes(src, target) ==
    IF TupleNe(src.shape, target.shape)
    THEN Raise("ConnectError", "shape",
               <<src.shape, src.path, target.shape, target.path>>)
    ELSE NoError

\* __check_val_and_shape_match(src, target); src.val.shape needs the attribute
check_val_and_shape(src, target) ==
    IF ~HasShapeAttr(src.val)
    THEN Raise("AttributeError", "no attribute shape", <<src.val.cls>>)
    ELSE IF TupleNe(src.val.shape, target.shape)
    THEN Raise("ConnectError", "val_shape",
               <<src.val.shape, src.path, target.shape, target.path>>)
    ELSE NoError

\* check_shapes_match(source, target)
check_shapes_match(source, target) ==
    LET f == ShapeCheckFunction(TypeOf(source.shape), TypeOf(target.shape))
    IN  IF f = "check_shapes_match" THEN check_declared_shapes(source, target)
        ELSE IF f = "check_val_and_shape_match" THEN check_val_and_shape(source, target)
        ELSE NoError

\* the loop body run with the shape check in front of the type check
CheckShapeFirst(source, target) ==
    LET e == check_shapes_match(source, target)
    IN  IF e # NoError THEN e ELSE check_types_match(source, target)

\* the body of the loop of check_connections, for one (source, target)
CheckOne(source, target) ==
    LET e == check_types_match(source, target)
    IN  IF e # NoError THEN e ELSE check_shapes_match(source, target)

\* ------------------------------------------------------------------ dicts
EmptyDict == [k \in {} |-> k]

\* a merge that keeps only the entries already present
UpdateDropsNew(d, other) == d

\* d.update(other)
DictUpdate(d, other) ==
    [k \in DOMAIN d \cup DOMAIN other |->
        IF k \in DOMAIN other THEN other[k] ELSE d[k]]

\* a conflict test that never fires
NeverInImplicit(tgt, implicit_conns) == FALSE

\* the test of line 117: tgt in implicit_conns
InImplicit(tgt, implicit_conns) == tgt \in DOMAIN implicit_conns

\* the loop over params_dict left at the first parameter without a source
FirstHangingOnly(params, conns) ==
    LET h == {p \in DOMAIN params : p \notin DOMAIN conns}
    IN  IF h = {} THEN {} ELSE {CHOOSE p \in h : TRUE}

\* the parameters p with p not in connections.keys()
HangingSet(params, conns) == {p \in DOMAIN params : p \notin DOMAIN conns}

\* the lists that hold every element of S once: a dict iteration in some order
Orders(S) ==
    {s \in [1..Cardinality(S) -> S] :
        \A i, j \in 1..Cardinality(S) : s[i] = s[j] => i = j}

PartialMaps(D, R) == UNION {[d -> R] : d \in SUBSET D}

\* ------------------------------------------------------------------ paths
P1 == Str3("G", "a", "x")
P2 == Str3("G", "ab", "x")
P3 == Str2("H", "x")
U1 == Str3("G", "a", "y")
U2 == Str3("G", "b", "x")
Targets == {P1, P2, P3}
Sources == {U1, U2}

\* a scalar and a small array, neither with a declared shape
PlainFloat == Descriptor(FloatVal, NoneVal)
PlainArray == Descriptor(ArrayVal(<<1>>), NoneVal)
\* a parameter's value is only ever asked for its class
ParamDescs == {Descriptor(v, sh) : v \in {FloatVal, ArrayVal(<<1>>)}, sh \in ShapeVals}
UnknownDescs == {Descriptor(v, sh) : v \in Vals, sh \in ShapeVals}

\* ------------------------------------------------------------------ state
VARIABLES
    explicit,       \* what root._get_explicit_connections() returns
    implicit,       \* what _get_implicit_connections(...) returns
    params_dict,    \* what root._setup_variables() returns, parameters
    unknowns_dict,  \* what root._setup_variables() returns, unknowns
    pc,             \* where setup is
    run,            \* how many times setup was called
    stages,         \* the stages this call of setup has entered, in order
    connections,    \* the local `connections` of setup
    todo,           \* the keys the running loop has not visited yet
    checked,        \* the (source, target) the loop of check_connections holds
    param_owners,   \* the dict assign_parameters builds
    error,          \* the exception that left setup, or NoError
    vectors,        \* the arguments root._setup_vectors was called with
    prev_owners     \* the param_owners of the previous call of setup

vars == <<explicit, implicit, params_dict, unknowns_dict, pc, run, stages,
          connections, todo, checked, param_owners, error, vectors, prev_owners>>

inputs == <<explicit, implicit, params_dict, unknowns_dict>>

NotCalled == [called |-> FALSE]
NoPair == [held |-> FALSE]
NoPrev == [set |-> FALSE]

Fresh ==
    /\ pc = "idle"
    /\ run = 0
    /\ stages = <<>>
    /\ connections = EmptyDict
    /\ todo = {}
    /\ checked = NoPair
    /\ param_owners = EmptyDict
    /\ error = NoError
    /\ vectors = NotCalled
    /\ prev_owners = NoPrev

\* models with up to three scalar parameters, wired in every way to two
\* unknowns; an explicit connection may name a target that is no parameter,
\* an implicit one is derived from params_dict and cannot
InitWiring ==
    /\ \E ps \in SUBSET Targets :
          /\ params_dict \in [ps -> {PlainFloat}]
          /\ implicit \in PartialMaps(ps, Sources)
    /\ explicit \in PartialMaps(Targets, Sources)
    /\ unknowns_dict \in [Sources -> {PlainFloat, PlainArray}]
    /\ Fresh

\* models with one unknown and one parameter of every class and shape, with
\* or without a second, scalar parameter
InitShapes ==
    /\ \E ps \in {{P1}, {P1, P2}} :
          /\ params_dict \in {d \in [ps -> ParamDescs] :
                                 P2 \in ps => d[P2] = PlainFloat}
          /\ explicit \in PartialMaps(ps, {U1})
          /\ implicit \in PartialMaps(ps, {U1})
    /\ unknowns_dict \in [{U1} -> UnknownDescs]
    /\ Fresh

Init == InitWiring \/ InitShapes

\* setup, lines 95-113: the collaborators are asked for the tables
SetupBegin ==
    /\ pc \in {"idle", "done", "error"}
    /\ run < MaxRuns
    /\ run' = run + 1
    /\ pc' = "reconcile"
    /\ stages' = <<"reconcile">>
    /\ connections' = explicit
    /\ todo' = {}
    /\ checked' = NoPair
    /\ param_owners' = EmptyDict
    /\ error' = NoError
    /\ vectors' = NotCalled
    /\ prev_owners' = IF pc = "done"
                       THEN [set |-> TRUE, owners |-> param_owners]
                       ELSE prev_owners
    /\ UNCHANGED inputs

\* setup, lines 116-120: the first connection found in implicit_conns raises
ReconcileConflict ==
    /\ pc = "reconcile"
    /\ \E tgt \in DOMAIN connections :
          /\ InImplicit(tgt, implicit)
          /\ error' = Raise("RuntimeError", "explicit_implicit",
                             <<tgt, connections[tgt], implicit[tgt]>>)
    /\ pc' = "error"
    /\ UNCHANGED <<inputs, run, stages, connections, todo, checked,
                    param_owners, vectors, prev_owners>>

\* setup, lines 116-125: no connection raises, the dicts are combined
ReconcileMerge ==
    /\ pc = "reconcile"
    /\ \A tgt \in DOMAIN connections : ~InImplicit(tgt, implicit)
    /\ connections' = DictUpdate(connections, implicit)
    /\ todo' = DOMAIN connections'
    /\ pc' = "check_connections"
    /\ stages' = Append(stages, "check_connections")
    /\ UNCHANGED <<inputs, run, checked, param_owners, error, vectors, prev_owners>>

\* check_connections, lines 25-28: the maps reach a connection whose target
\* is not in params, params.get gives None and None['val'] raises
MakeMetadataRaises ==
    /\ pc = "check_connections"
    /\ \E tgt \in todo :
          /\ tgt \notin DOMAIN params_dict
          /\ error' = Raise("TypeError", "None is not subscriptable", <<tgt>>)
          /\ todo' = todo \ {tgt}
    /\ checked' = NoPair
    /\ pc' = "error"
    /\ UNCHANGED <<inputs, run, stages, connections, param_owners, vectors,
                    prev_owners>>

\* check_connections, lines 30-32: one turn of the loop
CheckConnection ==
    /\ pc = "check_connections"
    /\ \E tgt \in todo :
          /\ tgt \in DOMAIN params_dict
          /\ LET source == make_var_metadata(connections[tgt],
                                             unknowns_dict[connections[tgt]])
                 target == make_var_metadata(tgt, params_dict[tgt])
                 e == CheckOne(source, target)
             IN  /\ checked' = [held |-> TRUE, source |-> source, target |-> target]
                 /\ error' = e
                 /\ pc' = IF e = NoError THEN pc ELSE "error"
                 /\ todo' = todo \ {tgt}
    /\ UNCHANGED <<inputs, run, stages, connections, param_owners, vectors,
                    prev_owners>>

\* check_connections returns
CheckConnectionsReturn ==
    /\ pc = "check_connections"
    /\ todo = {}
    /\ checked' = NoPair
    /\ pc' = "hanging_params"
    /\ stages' = Append(stages, "hanging_params")
    /\ UNCHANGED <<inputs, run, connections, todo, param_owners, error,
                    vectors, prev_owners>>

\* setup, lines 128-135: some parameter has no source
HangingParamsRaise ==
    /\ pc = "hanging_params"
    /\ HangingSet(params_dict, connections) # {}
    /\ \E hanging_params \in Orders(HangingSet(params_dict, connections)) :
          error' = Raise("RuntimeError", "hanging", <<hanging_params>>)
    /\ pc' = "error"
    /\ UNCHANGED <<inputs, run, stages, connections, todo, checked,
                    param_owners, vectors, prev_owners>>

\* setup, lines 128-139: every parameter has a source, assign_parameters starts
HangingParamsNone ==
    /\ pc = "hanging_params"
    /\ HangingSet(params_dict, connections) = {}
    /\ pc' = "assign_parameters"
    /\ stages' = Append(stages, "assign_parameters")
    /\ param_owners' = EmptyDict
    /\ todo' = DOMAIN connections
    /\ UNCHANGED <<inputs, run, connections, checked, error, vectors, prev_owners>>

\* assign_parameters, lines 197-206: one turn of the loop
AssignParameter ==
    /\ pc = "assign_parameters"
    /\ \E par \in todo :
          /\ param_owners' = SetDefaultAppend(param_owners,
                                               OwnerOf(par, connections[par]), par)
          /\ todo' = todo \ {par}
    /\ UNCHANGED <<inputs, pc, run, stages, connections, checked, error,
                    vectors, prev_owners>>

\* setup, line 142: assign_parameters has returned
SetupVectors ==
    /\ pc = "assign_parameters"
    /\ todo = {}
    /\ vectors' = [called |-> TRUE, param_owners |-> param_owners,
                    connections |-> connections]
    /\ pc' = "done"
    /\ stages' = Append(stages, "setup_vectors")
    /\ UNCHANGED <<inputs, run, connections, todo, checked, param_owners,
                    error, prev_owners>>

Next ==
    \/ SetupBegin
    \/ ReconcileConflict
    \/ ReconcileMerge
    \/ MakeMetadataRaises
    \/ CheckConnection
    \/ CheckConnectionsReturn
    \/ HangingParamsRaise
    \/ HangingParamsNone
    \/ AssignParameter
    \/ SetupVectors

Spec == Init /\ [][Next]_vars

\* ------------------------------------------------------------- properties
Range(f) == {f[i] : i \in DOMAIN f}

\* the targets connected both explicitly and implicitly
Shared == DOMAIN explicit \cap DOMAIN implicit
\* those of them whose two sources differ
Differing == {t \in Shared : explicit[t] # implicit[t]}

\* lines 116-123 have run in this call of setup
Reconciled == pc \notin {"idle", "reconcile"}
\* line 123 has run: the merged table exists
Merged == Len(stages) >= 2
IsConflictError == error.type = "RuntimeError" /\ error.msg = "explicit_implicit"

\* C1: when some target is connected explicitly and implicitly to different
\* sources, setup fails in reconciliation with an error that names that
\* target, its explicit source and its implicit source, and the merged table
\* is not produced.
C1_ConflictNamesDifferingTarget ==
    (Differing # {} /\ Reconciled) =>
        /\ pc = "error"
        /\ IsConflictError
        /\ error.args[1] \in Differing
        /\ error.args[2] = explicit[error.args[1]]
        /\ error.args[3] = implicit[error.args[1]]
        /\ ~Merged
        /\ connections = explicit

\* C2: when every target connected both explicitly and implicitly has the
\* same source in both, reconciliation raises no conflict error and the
\* merged table maps each such target to that common source.
C2_SameSourceIsNoConflict ==
    (Shared # {} /\ Differing = {} /\ Reconciled) =>
        /\ ~IsConflictError
        /\ Merged
        /\ \A t \in Shared : t \in DOMAIN connections /\ connections[t] = explicit[t]

\* C3: when no target is connected both explicitly and implicitly,
\* reconciliation succeeds and the merged table is the exact union of the two:
\* its keys are the keys of both, every explicit target keeps its explicit
\* source, every implicit target keeps its implicit source.
C3_DisjointUnion ==
    (Shared = {} /\ Reconciled) =>
        /\ ~IsConflictError
        /\ Merged
        /\ DOMAIN connections = DOMAIN explicit \cup DOMAIN implicit
        /\ \A t \in DOMAIN explicit : connections[t] = explicit[t]
        /\ \A t \in DOMAIN implicit : connections[t] = implicit[t]

\* two disjoint non-empty tables have been merged
C3_Witness ==
    /\ Shared = {}
    /\ DOMAIN explicit # {}
    /\ DOMAIN implicit # {}
    /\ pc = "check_connections"
    /\ Cardinality(DOMAIN connections) = 3

\* the table entries of the connection the validation loop holds
CheckedSrc == unknowns_dict[checked.source.path]
CheckedTgt == params_dict[checked.target.path]
\* the class of a variable's value
KindOf(desc) == TypeOf(desc.val)
Declared(desc) == TypeOf(desc.shape) = "tuple"
\* the connection the loop holds was let through
CheckedPassed == error = NoError
\* check_connections has returned without raising
Validated == Len(stages) >= 3

\* C4: a connection whose source and target values are of different classes
\* makes validation fail with ConnectError, whatever the two shapes are; the
\* error carries both paths and both classes, and it is the type error even
\* when the shapes would not match either; validation never returns normally
\* over a connection of differing classes.
C4_KindMismatchFails ==
    /\ (checked.held /\ KindOf(CheckedSrc) # KindOf(CheckedTgt)) =>
          /\ pc = "error"
          /\ error.type = "ConnectError"
          /\ error.msg = "type"
          /\ error.args[1] = checked.source.path
          /\ error.args[2] = KindOf(CheckedSrc)
          /\ error.args[3] = checked.target.path
          /\ error.args[4] = KindOf(CheckedTgt)
    /\ Validated =>
          \A t \in DOMAIN connections :
              KindOf(unknowns_dict[connections[t]]) = KindOf(params_dict[t])

\* classes differ and the declared shapes differ too: the type error is raised
C4_Witness ==
    /\ checked.held
    /\ KindOf(CheckedSrc) # KindOf(CheckedTgt)
    /\ Declared(CheckedSrc)
    /\ Declared(CheckedTgt)
    /\ CheckedSrc.shape # CheckedTgt.shape
    /\ error.type = "ConnectError"

\* the source has a shape to compare: a declared one, or its value's
HasEffectiveShape(desc) == Declared(desc) \/ HasShapeAttr(desc.val)
\* the declared shape when there is one, else the dimensions of the value
EffectiveShape(desc) ==
    IF Declared(desc) THEN desc.shape.items ELSE desc.val.shape.items

\* the source's effective shape is the same sequence as the target's declared one
SameEffectiveShape(src, tgt) ==
    /\ HasEffectiveShape(src)
    /\ Len(EffectiveShape(src)) = Len(tgt.shape.items)
    /\ \A i \in 1..Len(tgt.shape.items) : EffectiveShape(src)[i] = tgt.shape.items[i]

\* C5: for a connection of equal classes whose target declares a shape,
\* validation of the connection succeeds when the source's effective shape
\* (its declared shape, or the dimensions of its value when none is declared)
\* is the same sequence as the target's declared shape, and fails with
\* ConnectError when it is not.
C5_DeclaredTargetShape ==
    ( /\ checked.held
      /\ KindOf(CheckedSrc) = KindOf(CheckedTgt)
      /\ Declared(CheckedTgt) ) =>
        /\ SameEffectiveShape(CheckedSrc, CheckedTgt) =>
              CheckedPassed /\ pc = "check_connections"
        /\ ~SameEffectiveShape(CheckedSrc, CheckedTgt) =>
              pc = "error" /\ error.type = "ConnectError"

\* C5 for the sources that have a declared shape or a value with dimensions:
\* there the comparison decides, and a failure is a ConnectError.
C5_WhenSourceHasDimensions ==
    ( /\ checked.held
      /\ KindOf(CheckedSrc) = KindOf(CheckedTgt)
      /\ Declared(CheckedTgt)
      /\ HasEffectiveShape(CheckedSrc) ) =>
        /\ SameEffectiveShape(CheckedSrc, CheckedTgt) =>
              CheckedPassed /\ pc = "check_connections"
        /\ ~SameEffectiveShape(CheckedSrc, CheckedTgt) =>
              pc = "error" /\ error.type = "ConnectError"
                           /\ error.msg \in {"shape", "val_shape"}

\* an array without a declared shape was compared by its value's dimensions,
\* which have the target's rank and differ from it in one extent: rejected
C5_WitnessValueDimensions ==
    /\ checked.held
    /\ KindOf(CheckedSrc) = "ndarray"
    /\ KindOf(CheckedTgt) = "ndarray"
    /\ ~Declared(CheckedSrc)
    /\ Declared(CheckedTgt)
    /\ Len(CheckedSrc.val.shape.items) = 2
    /\ Len(CheckedTgt.shape.items) = 2
    /\ error.type = "ConnectError"
    /\ error.msg = "val_shape"

\* C6: for a connection whose target declares no shape, no shape comparison
\* can fail: validation of the connection succeeds exactly when the classes
\* of the two values are equal, whatever the source declares.
C6_UndeclaredTargetShape ==
    (checked.held /\ ~Declared(CheckedTgt)) =>
        /\ CheckedPassed <=> KindOf(CheckedSrc) = KindOf(CheckedTgt)
        /\ ~CheckedPassed => error.msg = "type"

\* a source with a declared shape went through against a target without one
C6_Witness ==
    /\ checked.held
    /\ ~Declared(CheckedTgt)
    /\ Declared(CheckedSrc)
    /\ KindOf(CheckedSrc) = KindOf(CheckedTgt)
    /\ CheckedPassed
    /\ pc = "check_connections"

\* lines 128-135 have run in this call of setup
CompletenessChecked == Validated /\ pc # "hanging_params"
IsHangingError == error.type = "RuntimeError" /\ error.msg = "hanging"

\* C7: the completeness check fails if and only if some parameter is not a
\* key of the connection table, and the error then lists exactly the
\* parameters that are not: each of them, and none that has a source.
C7_HangingParamsExact ==
    CompletenessChecked =>
        LET orphans == DOMAIN params_dict \ DOMAIN connections
        IN  /\ IsHangingError <=> orphans # {}
            /\ IsHangingError =>
                  /\ pc = "error"
                  /\ Range(error.args[1]) = orphans
                  /\ Len(error.args[1]) = Cardinality(orphans)
            /\ ~IsHangingError => error = NoError

\* three parameters, the first and the third connected: the error lists the second
C7_Witness ==
    /\ DOMAIN params_dict = {P1, P2, P3}
    /\ DOMAIN connections = {P1, P3}
    /\ IsHangingError
    /\ error.args[1] = <<P2>>

\* the targets assign_parameters has visited
Assigned == IF pc \in {"assign_parameters", "done"}
            THEN DOMAIN connections \ todo ELSE {}

\* how often par occurs in the lists of all owners
Occurrences(owners, par) ==
    Cardinality({<<o, i>> \in UNION {{o} \X DOMAIN owners[o] : o \in DOMAIN owners} :
                    owners[o][i] = par})

Min(a, b) == IF a < b THEN a ELSE b

\* parts is the longest sequence of leading segments a and b agree on
IsLongestCommonPrefix(parts, a, b) ==
    /\ Len(parts) <= Min(Len(a), Len(b))
    /\ \A i \in 1..Len(parts) : parts[i] = a[i] /\ parts[i] = b[i]
    /\ \/ Len(parts) = Min(Len(a), Len(b))
       \/ a[Len(parts) + 1] # b[Len(parts) + 1]

\* owner is the ':'-join of the longest common segment prefix of par and unk
IsNearestAncestor(owner, par, unk) ==
    \E n \in 0..Min(Len(Split(par)), Len(Split(unk))) :
        /\ IsLongestCommonPrefix(SubSeq(Split(par), 1, n), Split(par), Split(unk))
        /\ owner = Join(SubSeq(Split(par), 1, n))

\* C8: assign_parameters puts every connection's target in the list of exactly
\* one owner, exactly once, and that owner is the ':'-join of the longest
\* common prefix of the ':'-separated segments of target and source; equal
\* segments after the first differing one do not count (G:a:x fed by G:b:x
\* is owned by G), and paths without a common leading segment are owned by
\* the empty root path.
C8_OwnerIsLongestCommonPrefix ==
    /\ \A par \in Assigned :
          /\ Occurrences(param_owners, par) = 1
          /\ \E o \in DOMAIN param_owners :
                /\ par \in Range(param_owners[o])
                /\ IsNearestAncestor(o, par, connections[par])
    /\ \A o \in DOMAIN param_owners : Range(param_owners[o]) \subseteq Assigned
    /\ (P1 \in Assigned /\ connections[P1] = U2) =>
          <<"G">> \in DOMAIN param_owners /\ P1 \in Range(param_owners[<<"G">>])
    /\ (P1 \in Assigned /\ connections[P1] = U1) =>
          Str2("G", "a") \in DOMAIN param_owners
              /\ P1 \in Range(param_owners[Str2("G", "a")])
    /\ P3 \in Assigned =>
          <<>> \in DOMAIN param_owners /\ P3 \in Range(param_owners[<<>>])

\* G:a:x fed by G:b:x, G:ab:x fed by G:a:y and H:x have all been assigned
C8_Witness ==
    /\ pc = "done"
    /\ Assigned = {P1, P2, P3}
    /\ connections[P1] = U2
    /\ connections[P2] = U1
    /\ DOMAIN param_owners = {<<"G">>, <<>>}

StageOrder == <<"reconcile", "check_connections", "hanging_params",
                "assign_parameters", "setup_vectors">>

\* every connection the model author or the name matching asked for
Wanted == DOMAIN explicit \cup DOMAIN implicit
SourcesWanted(t) ==
    (IF t \in DOMAIN explicit THEN {explicit[t]} ELSE {})
        \cup (IF t \in DOMAIN implicit THEN {implicit[t]} ELSE {})

\* the classes differ, or the target declares a shape the source does not have
Incompatible(src, tgt) ==
    \/ KindOf(src) # KindOf(tgt)
    \/ /\ Declared(tgt)
       /\ \/ ~HasEffectiveShape(src)
          \/ EffectiveShape(src) # tgt.shape.items

\* no contradiction, no type or shape mismatch, no parameter without a source
NoWiringDefect ==
    /\ Differing = {}
    /\ \A t \in Wanted : \A u \in SourcesWanted(t) :
          ~Incompatible(unknowns_dict[u], params_dict[t])
    /\ DOMAIN params_dict \subseteq Wanted

\* C9: setup enters its stages in the order reconciliation, validation,
\* completeness check, ownership assignment, vector setup, and stops at the
\* first one that raises; ownership assignment and root._setup_vectors are
\* reached only for a model without a conflict, a type or shape mismatch or a
\* hanging parameter.
C9_FailFastStageOrder ==
    /\ Len(stages) <= Len(StageOrder)
    /\ \A i \in 1..Len(stages) : stages[i] = StageOrder[i]
    /\ Len(stages) >= 4 => NoWiringDefect
    /\ vectors.called <=> Len(stages) = 5
    /\ vectors.called => pc = "done" /\ error = NoError
    /\ error # NoError => pc = "error" /\ ~vectors.called
    /\ pc = "error" => error # NoError

\* a model with an explicit connection and an implicit one got its vectors set up
C9_Witness ==
    /\ vectors.called
    /\ stages = StageOrder
    /\ DOMAIN explicit # {}
    /\ DOMAIN implicit # {}

\* the targets of each owner, without their order
Membership(owners) == [o \in DOMAIN owners |-> Range(owners[o])]

\* the grouping of the targets by owner, as a function of the table alone
Grouping(conns) ==
    [o \in {OwnerOf(t, conns[t]) : t \in DOMAIN conns} |->
        {t \in DOMAIN conns : OwnerOf(t, conns[t]) = o}]

\* C10: whatever order the connection table is iterated in, the ownership
\* assignment has the same owners and each owner the same set of targets
\* (only the order inside an owner's list varies), and a second call of setup
\* on the same model yields the same grouping as the first.
C10_GroupingOrderIndependent ==
    pc = "done" =>
        /\ Membership(param_owners) = Grouping(connections)
        /\ \A o \in DOMAIN param_owners :
              Len(param_owners[o]) = Cardinality(Range(param_owners[o]))
        /\ prev_owners.set =>
              Membership(prev_owners.owners) = Membership(param_owners)

\* two calls of setup listed an owner's targets in different orders
C10_Witness ==
    /\ pc = "done"
    /\ prev_owners.set
    /\ prev_owners.owners # param_owners
    /\ \E o \in DOMAIN param_owners : Len(param_owners[o]) >= 2

=============================================================================
